---- MODULE Spec2Model ----
(***************************************************************************)
(* go-chartmuseum: the ChartMuseum API client (pkg/chartmuseum) and the    *)
(* curator command line tool (examples/curator).                           *)
(*                                                                         *)
(* Strings are sequences of tokens.  A token is one character ("a", "/",   *)
(* "?"), a word that always travels whole ("api", "charts"), the scheme    *)
(* and authority of an absolute URL ("S", standing for "http://h"), the    *)
(* percent-escape "%2F" of a slash ("E") or a malformed percent-escape     *)
(* such as "%zz" ("X").                                                    *)
(***************************************************************************)
EXTENDS Integers, Sequences, FiniteSets, TLC

VARIABLES
    \* --- NewClient / request URL resolution on a pair of base URLs
    upc, ubase, urel, cliA, cliB, urlA, urlB,
    \* --- one call of ChartService.UploadChart / DeleteChart
    pc, op, ci, file, client, ctxState, req, netOut, doRet, ret, effects,
    \* --- one run of a curator subcommand
    cpc, cmd, cfg, args, tmpDir, pkgExit, helpShown, cmdErr

urlVars == <<upc, ubase, urel, cliA, cliB, urlA, urlB>>
libVars == <<pc, op, ci, file, client, ctxState, req, netOut, doRet, ret, effects>>
cliVars == <<cpc, cmd, cfg, args, tmpDir, pkgExit, helpShown, cmdErr>>
vars == <<urlVars, libVars, cliVars>>

----------------------------------------------------------------------------
(* Bounds of the model.                                                    *)

\* longest path part of a base URL, in tokens
MaxPathLen == 3
\* longest relative URL handed to NewRequest in the URL specification
MaxRelLen == 2
\* longest ChartInfo.Org and ChartInfo.Repo, in tokens
MaxScopeLen == 1

----------------------------------------------------------------------------
(* Values                                                                 *)

Nil == [nil |-> TRUE]

\* an error value is its message, a sequence of message parts (outermost first)
Errorf(m) == [msg |-> <<m>>]

\* errors.Wrap / errors.Wrapf: nil stays nil, otherwise the prefix is put in front
Wrap(e, prefix) == IF e = Nil THEN Nil ELSE [msg |-> <<prefix>> \o e.msg]

userAgent == <<"go-chartmuseum">>
mediaType == <<"application/vnd.chartmuseum.v0+json">>

Range(s) == {s[i] : i \in 1..Len(s)}

SeqsUpTo(S, n) == UNION {[1..k -> S] : k \in 0..n}

\* strings.HasSuffix(s, "/")
HasSuffixSlash(s) == Len(s) > 0 /\ s[Len(s)] = "/"

\* strings.Index / strings.LastIndex of a one-token needle, 1-based, 0 when absent
IndexOf(s, t) ==
    IF \E i \in 1..Len(s) : s[i] = t
    THEN CHOOSE i \in 1..Len(s) : s[i] = t /\ \A j \in 1..(i-1) : s[j] # t
    ELSE 0

LastIndexOf(s, t) ==
    IF \E i \in 1..Len(s) : s[i] = t
    THEN CHOOSE i \in 1..Len(s) : s[i] = t /\ \A j \in (i+1)..Len(s) : s[j] # t
    ELSE 0

----------------------------------------------------------------------------
(* net/url as the client uses it                                           *)

\* url.unescape(s, encodePath): "%2F" decodes to "/"; the other tokens are
\* themselves.  Only applied to strings without a malformed escape.
Unescape(s) == [i \in 1..Len(s) |-> IF s[i] = "E" THEN "/" ELSE s[i]]

\* url.escape(s, encodePath): none of the decoded tokens needs escaping in a
\* path, and a decoded "/" is written "/", never "%2F".
Escape(s) == s

\* url.validEncoded / a successful unescape
ValidEncoded(s) == "X" \notin Range(s)

\* URL.setPath: RawPath is kept only when it differs from the default encoding
setPath(u, p) ==
    [u EXCEPT !.Path = Unescape(p),
              !.RawPath = IF p = Escape(Unescape(p)) THEN <<>> ELSE p]

\* URL.EscapedPath: RawPath when it is a valid encoding of Path, else the
\* default encoding of Path
EscapedPath(u) ==
    IF u.RawPath # <<>> /\ ValidEncoded(u.RawPath) /\ Unescape(u.RawPath) = u.Path
    THEN u.RawPath
    ELSE Escape(u.Path)

\* url.Parse: scheme and authority, then the path up to "?", then the raw
\* query.  A malformed escape in the path is the parse error.
ParseURL(raw) ==
    LET hasS  == raw # <<>> /\ raw[1] = "S"
        rest  == IF hasS THEN Tail(raw) ELSE raw
        qi    == IndexOf(rest, "?")
        p     == IF qi = 0 THEN rest ELSE SubSeq(rest, 1, qi - 1)
        q     == IF qi = 0 THEN <<>> ELSE SubSeq(rest, qi + 1, Len(rest))
        empty == [Scheme |-> IF hasS THEN <<"S">> ELSE <<>>,
                  Path |-> <<>>, RawPath |-> <<>>, RawQuery |-> q]
    IN  IF ~ValidEncoded(p)
        THEN [ok |-> FALSE, url |-> Nil, err |-> Errorf("invalid URL escape")]
        ELSE [ok |-> TRUE, url |-> setPath(empty, p), err |-> Nil]

\* URL.String
URLString(u) ==
    u.Scheme \o EscapedPath(u)
             \o (IF u.RawQuery # <<>> THEN <<"?">> \o u.RawQuery ELSE <<>>)

\* url.resolvePath (the strings here hold no "." or ".." segment)
resolvePath(base, ref) ==
    LET full == IF ref = <<>> THEN base
                ELSE IF ref[1] # "/"
                     THEN SubSeq(base, 1, LastIndexOf(base, "/")) \o ref
                     ELSE ref
    IN  IF full = <<>> THEN <<>>
        ELSE IF full[1] = "/" THEN full ELSE <<"/">> \o full

\* URL.ResolveReference
ResolveReference(base, ref) ==
    IF ref.Scheme # <<>> THEN ref
    ELSE LET q == IF ref.Path = <<>> /\ ref.RawQuery = <<>>
                  THEN base.RawQuery ELSE ref.RawQuery
             t == [Scheme |-> base.Scheme, Path |-> <<>>, RawPath |-> <<>>,
                   RawQuery |-> q]
         IN  setPath(t, resolvePath(EscapedPath(base), EscapedPath(ref)))

\* URL.Parse(ref): parse ref, then resolve it against the receiver
URLParseRef(base, urlStr) ==
    LET r == ParseURL(urlStr)
    IN  IF ~r.ok THEN r
        ELSE [ok |-> TRUE, url |-> ResolveReference(base, r.url), err |-> Nil]

----------------------------------------------------------------------------
(* client.go                                                               *)

\* the trailing-slash normalisation of NewClient: only Path is extended
NormalizePath(u) ==
    IF ~HasSuffixSlash(u.Path) THEN [u EXCEPT !.Path = u.Path \o <<"/">>] ELSE u

NewClient(baseURL) ==
    IF baseURL = <<>>
    THEN [ok |-> FALSE, client |-> Nil,
          err |-> Errorf("ChartMuseum API - base URL can not be blank")]
    ELSE LET r == ParseURL(baseURL)
         IN  IF ~r.ok THEN [ok |-> FALSE, client |-> Nil, err |-> r.err]
             ELSE [ok |-> TRUE,
                   client |-> [BaseURL |-> NormalizePath(r.url),
                               UserAgent |-> userAgent],
                   err |-> Nil]

\* the common head of NewRequest and NewUploadRequest: the trailing-slash
\* check, BaseURL.Parse(urlStr) and the u.String() given to http.NewRequest
RequestURL(c, urlStr) ==
    IF ~HasSuffixSlash(c.BaseURL.Path)
    THEN [ok |-> FALSE, url |-> <<>>,
          err |-> Errorf("BaseURL must have a trailing slash")]
    ELSE LET r == URLParseRef(c.BaseURL, urlStr)
         IN  IF ~r.ok THEN [ok |-> FALSE, url |-> <<>>, err |-> r.err]
             ELSE [ok |-> TRUE, url |-> URLString(r.url), err |-> Nil]

\* header value of a header that was never set
Unset == <<>>

\* Client.NewRequest (body is Nil or a JSON-encodable value)
NewRequest(c, method, urlStr, body) ==
    LET r == RequestURL(c, urlStr)
    IN  IF ~r.ok THEN [ok |-> FALSE, req |-> Nil, err |-> r.err]
        ELSE [ok |-> TRUE, err |-> Nil,
              req |-> [Method |-> method, URL |-> r.url,
                       ContentType |-> IF body # Nil THEN <<"application/json">>
                                       ELSE Unset,
                       Accept |-> mediaType,
                       UserAgent |-> IF c.UserAgent # <<>> THEN c.UserAgent
                                     ELSE Unset,
                       ContentLength |-> 0, hasBody |-> body # Nil,
                       bodyOffset |-> 0, bodyLen |-> 0]]

\* Client.NewUploadRequest: reader is the file, read from its current offset
NewUploadRequest(c, urlStr, reader, size, contentType) ==
    LET r == RequestURL(c, urlStr)
    IN  IF ~r.ok THEN [ok |-> FALSE, req |-> Nil, err |-> r.err]
        ELSE [ok |-> TRUE, err |-> Nil,
              req |-> [Method |-> "POST", URL |-> r.url,
                       ContentType |-> contentType,
                       Accept |-> Unset,
                       UserAgent |-> c.UserAgent,
                       ContentLength |-> size, hasBody |-> TRUE,
                       bodyOffset |-> reader.pos,
                       bodyLen |-> reader.size - reader.pos]]

\* ctx.Done() is closed
CtxDone(cs) == cs # "live"

\* ctx.Err()
CtxErr(cs) ==
    IF cs = "canceled" THEN Errorf("context canceled")
    ELSE IF cs = "deadline" THEN Errorf("context deadline exceeded")
    ELSE Nil

\* variant: the transport's error is returned without looking at the context
DoTransportErrorAlways(cs, terr) == [resp |-> Nil, err |-> terr]

\* Client.Do, the branch taken when httpClient.Do returned an error
DoOnTransportError(cs, terr) ==
    IF CtxDone(cs) THEN [resp |-> Nil, err |-> CtxErr(cs)]
    ELSE [resp |-> Nil, err |-> terr]

\* the fields of Response before json.Unmarshal fills any
EmptyEnvelope == [Message |-> "", Error |-> "", Saved |-> FALSE, Deleted |-> FALSE]

\* ioutil.ReadAll followed by json.Unmarshal into the envelope: a body that
\* cannot be read, an empty one and malformed JSON leave the fields as they are
Decode(body) ==
    CASE body = "saved"   -> [EmptyEnvelope EXCEPT !.Saved = TRUE]
      [] body = "deleted" -> [EmptyEnvelope EXCEPT !.Deleted = TRUE]
      [] body = "error"   -> [EmptyEnvelope EXCEPT !.Error = "disk full"]
      [] OTHER            -> EmptyEnvelope

\* variant: 200 itself is not a success
IsSuccessStrict(c) == 200 < c /\ c <= 299

\* the status test of parseResponse
IsSuccess(c) == 200 <= c /\ c <= 299

\* parseResponse: fmt.Errorf(response.Error) is an error even for an empty text
parseResponse(r) ==
    LET response == [StatusCode |-> r.status, env |-> Decode(r.body)]
    IN  IF IsSuccess(r.status) THEN [resp |-> response, err |-> Nil]
        ELSE [resp |-> response, err |-> Errorf(response.env.Error)]

\* Client.Do once httpClient.Do has returned o
Do(cs, o) ==
    IF o.kind = "fail" THEN DoOnTransportError(cs, o.err) ELSE parseResponse(o)

----------------------------------------------------------------------------
(* charts.go                                                               *)

\* string concatenation with "/" between the parts, as the Sprintf formats do
Join3(a, b, c) == a \o <<"/">> \o b \o <<"/">> \o c

\* variant: Repo is not required when Org is set
UploadPathNoCheck(c) ==
    IF c.Org # <<>>
    THEN [ok |-> TRUE, err |-> Nil, u |-> Join3(<<"api">>, c.Org, c.Repo) \o <<"/", "charts">>]
    ELSE IF c.Repo # <<>>
         THEN [ok |-> TRUE, err |-> Nil, u |-> <<"api", "/">> \o c.Repo \o <<"/", "charts">>]
         ELSE [ok |-> TRUE, err |-> Nil, u |-> <<"api", "/", "charts">>]

\* variant: Org and Repo change places in the path
UploadPathSwapped(c) ==
    IF c.Org # <<>>
    THEN IF c.Repo = <<>>
         THEN [ok |-> FALSE, u |-> <<>>, err |-> Errorf("Repo required if Org is provided")]
         ELSE [ok |-> TRUE, err |-> Nil,
               u |-> Join3(<<"api">>, c.Repo, c.Org) \o <<"/", "charts">>]
    ELSE IF c.Repo # <<>>
         THEN [ok |-> TRUE, err |-> Nil, u |-> <<"api", "/">> \o c.Repo \o <<"/", "charts">>]
         ELSE [ok |-> TRUE, err |-> Nil, u |-> <<"api", "/", "charts">>]

\* path selection of UploadChart
UploadPath(c) ==
    IF c.Org # <<>>
    THEN IF c.Repo = <<>>
         THEN [ok |-> FALSE, u |-> <<>>, err |-> Errorf("Repo required if Org is provided")]
         ELSE [ok |-> TRUE, err |-> Nil,
               u |-> Join3(<<"api">>, c.Org, c.Repo) \o <<"/", "charts">>]
    ELSE IF c.Repo # <<>>
         THEN [ok |-> TRUE, err |-> Nil, u |-> <<"api", "/">> \o c.Repo \o <<"/", "charts">>]
         ELSE [ok |-> TRUE, err |-> Nil, u |-> <<"api", "/", "charts">>]

\* path selection of DeleteChart
DeletePath(c) ==
    LET nv == c.Name \o <<"/">> \o c.Version
    IN  IF c.Org # <<>>
        THEN IF c.Repo = <<>>
             THEN [ok |-> FALSE, u |-> <<>>,
                   err |-> Errorf("Repo required if Org is provided")]
             ELSE [ok |-> TRUE, err |-> Nil,
                   u |-> Join3(<<"api">>, c.Org, c.Repo) \o <<"/", "charts", "/">> \o nv]
        ELSE IF c.Repo # <<>>
             THEN [ok |-> TRUE, err |-> Nil,
                   u |-> <<"api", "/">> \o c.Repo \o <<"/", "charts", "/">> \o nv]
             ELSE [ok |-> TRUE, err |-> Nil, u |-> <<"api", "/", "charts", "/">> \o nv]

\* the sniff buffer of detectContentType
SniffLen == 512

Min(a, b) == IF a < b THEN a ELSE b

\* http.DetectContentType on the bytes read from offset pos
DetectedType(f, pos) ==
    IF pos = 0 /\ f.magic = "gzip" THEN <<"application/x-gzip">>
    ELSE <<"application/octet-stream">>

\* detectContentType: the outcomes of file.Read(buffer) and what follows.  A
\* read that fails leaves the offset unspecified (read(2)); the early return on
\* an error (end of file included) skips the Seek.
detectContentType(f) ==
    IF f.readErr
    THEN {[mediaType |-> <<"application/octet-stream">>, err |-> Errorf("read error"),
           file |-> [f EXCEPT !.pos = p]] :
             p \in {f.pos, Min(f.size, f.pos + SniffLen)}}
    ELSE IF f.pos >= f.size
    THEN {[mediaType |-> <<"application/octet-stream">>, err |-> Errorf("EOF"),
           file |-> f]}
    ELSE {[mediaType |-> DetectedType(f, f.pos), err |-> Nil,
           file |-> [f EXCEPT !.pos = 0]]}

\* what a call has done so far: the path u handed to its helper, file.Stat,
\* detectContentType, NewRequest / NewUploadRequest, httpClient.Do
NoEffects == [u |-> <<>>, stat |-> FALSE, sniff |-> FALSE, built |-> FALSE,
              exchanged |-> FALSE]

\* uploadChartHelper up to the call of client.Do; d is the outcome of
\* detectContentType.  The result names the next position and the new state.
uploadChartHelper(c, u, f, d, eff) ==
    LET e1 == [eff EXCEPT !.stat = TRUE]
        e2 == [e1 EXCEPT !.sniff = TRUE]
        e3 == [e2 EXCEPT !.built = TRUE]
        r  == NewUploadRequest(c, u, d.file, f.size, d.mediaType)
    IN  IF f.statErr
        THEN [pc |-> "returned", req |-> Nil, file |-> f, effects |-> e1,
              ret |-> [resp |-> Nil,
                       err |-> Wrap(Errorf("stat failed"), "Unable to access file")]]
        ELSE IF f.kind = "dir"
        THEN [pc |-> "returned", req |-> Nil, file |-> f, effects |-> e1,
              ret |-> [resp |-> Nil,
                       err |-> Errorf("Chart to upload can't be a directory")]]
        ELSE IF ~r.ok
        THEN [pc |-> "returned", req |-> Nil, file |-> d.file, effects |-> e3,
              ret |-> [resp |-> Nil,
                       err |-> Wrap(r.err, "Failed creating upload request")]]
        ELSE [pc |-> "transport", req |-> r.req, file |-> d.file, effects |-> e3,
              ret |-> Nil]

\* deleteChartHelper up to the call of client.Do
deleteChartHelper(c, u, eff) ==
    LET r == NewRequest(c, "DELETE", u, Nil)
        e == [eff EXCEPT !.built = TRUE]
    IN  IF ~r.ok
        THEN [pc |-> "returned", req |-> Nil, effects |-> e,
              ret |-> [resp |-> Nil,
                       err |-> Wrap(r.err, "Failed creating delete request")]]
        ELSE [pc |-> "transport", req |-> r.req, effects |-> e, ret |-> Nil]

\* the tail of both helpers: the error of Do is wrapped, the response passed on
HelperReturn(o, d) ==
    IF d.err # Nil
    THEN [resp |-> d.resp,
          err |-> Wrap(d.err, IF o = "upload" THEN "Failed to do upload request"
                              ELSE "Failed to do delete request")]
    ELSE d

----------------------------------------------------------------------------
(* Idle values of the variable groups a specification does not use         *)

NoClient == [BaseURL |-> [Scheme |-> <<>>, Path |-> <<>>, RawPath |-> <<>>,
                          RawQuery |-> <<>>],
             UserAgent |-> <<>>]

UrlIdle ==
    /\ upc = "idle" /\ ubase = <<>> /\ urel = <<>>
    /\ cliA = Nil /\ cliB = Nil /\ urlA = Nil /\ urlB = Nil

NoFile == [kind |-> "none", size |-> 0, pos |-> 0, magic |-> "other",
           open |-> FALSE, statErr |-> FALSE, readErr |-> FALSE]

NoChart == [Name |-> <<>>, Version |-> <<>>, Org |-> <<>>, Repo |-> <<>>]

LibIdle ==
    /\ pc = "idle" /\ op = "none" /\ ci = NoChart /\ file = NoFile
    /\ client = NoClient /\ ctxState = "live" /\ req = Nil /\ netOut = Nil
    /\ doRet = Nil /\ ret = Nil /\ effects = NoEffects

CliIdle ==
    /\ cpc = "idle" /\ cmd = "none" /\ cfg = Nil /\ args = Nil
    /\ tmpDir = "none" /\ pkgExit = "none" /\ helpShown = FALSE /\ cmdErr = Nil

----------------------------------------------------------------------------
(* One call of UploadChart or DeleteChart on a client, with the context    *)
(* cancelled at any moment and the transport answering as it likes.        *)

\* values of ChartInfo.Org and ChartInfo.Repo, and of Name and Version
ScopeVals == SeqsUpTo({"a", "X"}, MaxScopeLen)
NameVals == {<<>>, <<"a">>, <<"b">>}
VersionVals == {<<>>, <<"a">>}

ChartInfos == [Name : NameVals, Version : VersionVals, Org : ScopeVals, Repo : ScopeVals]

\* open files a caller may hand to UploadChart: regular files of several
\* sizes at several read offsets, a device that fails to read, a directory,
\* a handle whose Stat fails
FileSizes == {0, 3, SniffLen + 3}

RegularFiles ==
    {[kind |-> "regular", size |-> sz, pos |-> p, magic |-> m, open |-> TRUE,
      statErr |-> FALSE, readErr |-> re] :
        sz \in FileSizes, p \in {0, 1} \cup FileSizes, m \in {"gzip", "other"},
        re \in BOOLEAN}

Files ==
    {f \in RegularFiles :
        /\ f.pos <= f.size
        /\ f.magic = "other" => (f.pos = 0 /\ ~f.readErr)
        /\ f.readErr => f.pos < f.size}
    \cup {[NoFile EXCEPT !.kind = "dir", !.open = TRUE],
          [NoFile EXCEPT !.kind = "regular", !.open = TRUE, !.statErr = TRUE]}

\* clients: built by NewClient, and one whose exported BaseURL was replaced by
\* a URL without the trailing slash
Clients ==
    {NewClient(<<"S">>).client, NewClient(<<"S", "/", "a">>).client,
     [BaseURL |-> ParseURL(<<"S", "/", "a">>).url, UserAgent |-> userAgent]}

\* what httpClient.Do may return
StatusCodes == {199, 200, 299, 300, 500}
Bodies == {"empty", "malformed", "unreadable", "saved", "deleted", "error"}

NetFailures == {[kind |-> "fail", err |-> Errorf("connection refused"),
                 status |-> 0, body |-> "empty"]}

NetResponses == {[kind |-> "resp", err |-> Nil, status |-> st, body |-> b] :
                    st \in StatusCodes, b \in Bodies}

\* a body shorter than the declared Content-Length makes the transport fail
NetOutcomes(r) ==
    IF r.hasBody /\ r.bodyLen # r.ContentLength THEN NetFailures
    ELSE NetFailures \cup NetResponses

InitLib ==
    /\ op \in {"upload", "delete"}
    /\ pc = (IF op = "upload" THEN "UploadChart" ELSE "DeleteChart")
    /\ ci \in ChartInfos
    /\ file \in (IF op = "upload" THEN Files ELSE {NoFile})
    /\ client \in Clients
    /\ ctxState \in {"live", "canceled"}
    /\ req = Nil /\ netOut = Nil /\ doRet = Nil /\ ret = Nil
    /\ effects = NoEffects
    /\ UrlIdle /\ CliIdle

UploadChart ==
    /\ pc = "UploadChart"
    /\ LET v == UploadPath(ci)
       IN  IF ~v.ok
           THEN /\ pc' = "returned"
                /\ ret' = [resp |-> Nil, err |-> v.err]
                /\ UNCHANGED <<req, file, effects>>
           ELSE \E d \in detectContentType(file) :
                  LET h == uploadChartHelper(client, v.u, file, d, [effects EXCEPT !.u = v.u])
                  IN  /\ pc' = h.pc
                      /\ ret' = h.ret
                      /\ req' = h.req
                      /\ file' = h.file
                      /\ effects' = h.effects
    /\ UNCHANGED <<op, ci, client, ctxState, netOut, doRet>>
    /\ UNCHANGED <<urlVars, cliVars>>

DeleteChart ==
    /\ pc = "DeleteChart"
    /\ LET v == DeletePath(ci)
       IN  IF ~v.ok
           THEN /\ pc' = "returned"
                /\ ret' = [resp |-> Nil, err |-> v.err]
                /\ UNCHANGED <<req, effects>>
           ELSE LET h == deleteChartHelper(client, v.u, [effects EXCEPT !.u = v.u])
                IN  /\ pc' = h.pc
                    /\ ret' = h.ret
                    /\ req' = h.req
                    /\ effects' = h.effects
    /\ UNCHANGED <<op, ci, file, client, ctxState, netOut, doRet>>
    /\ UNCHANGED <<urlVars, cliVars>>

\* httpClient.Do: the exchange; the transport closes the request body
Transport ==
    /\ pc = "transport"
    /\ \E o \in NetOutcomes(req) : netOut' = o
    /\ file' = (IF req.hasBody THEN [file EXCEPT !.open = FALSE] ELSE file)
    /\ effects' = [effects EXCEPT !.exchanged = TRUE]
    /\ pc' = "handle"
    /\ UNCHANGED <<op, ci, client, ctxState, req, doRet, ret>>
    /\ UNCHANGED <<urlVars, cliVars>>

\* the rest of Client.Do and of the helper that called it
DoReturn ==
    /\ pc = "handle"
    /\ doRet' = Do(ctxState, netOut)
    /\ ret' = HelperReturn(op, doRet')
    /\ pc' = "returned"
    /\ UNCHANGED <<op, ci, file, client, ctxState, req, netOut, effects>>
    /\ UNCHANGED <<urlVars, cliVars>>

\* the caller cancels the context, or its deadline passes
Cancel ==
    /\ ctxState = "live"
    /\ pc \in {"UploadChart", "DeleteChart", "transport", "handle"}
    /\ \E s \in {"canceled", "deadline"} : ctxState' = s
    /\ UNCHANGED <<pc, op, ci, file, client, req, netOut, doRet, ret, effects>>
    /\ UNCHANGED <<urlVars, cliVars>>

NextLib == UploadChart \/ DeleteChart \/ Transport \/ DoReturn \/ Cancel

SpecLib == InitLib /\ [][NextLib]_vars

----------------------------------------------------------------------------
(* curator: one run of the push or the delete subcommand.  The context is  *)
(* context.Background(), which is never cancelled.                         *)

\* --server values: none, two usable ones, one url.Parse rejects
Servers == {<<>>, <<"S">>, <<"S", "/", "a">>, <<"S", "/", "X">>}

Configs == [Server : Servers, Org : ScopeVals, Repo : ScopeVals]

\* the command line arguments: the chart directory of push (absent, not a
\* chart directory, a chart directory), the chart name and version of delete
PushArgs == {[chartPath |-> k, name |-> <<>>, version |-> <<>>] :
                k \in {"missing", "invalid", "valid"}}
DeleteArgs == {[chartPath |-> "missing", name |-> n, version |-> v] :
                  n \in NameVals, v \in VersionVals}

\* name and version in the metadata of a loadable chart
ChartNames == {<<"a">>, <<"b">>}
ChartVersions == {<<"a">>}

\* the package file os.Open returns: at offset 0, readable or not
PackageFiles ==
    {[kind |-> "regular", size |-> sz, pos |-> 0, magic |-> "gzip", open |-> TRUE,
      statErr |-> se, readErr |-> re] :
        sz \in {3, SniffLen + 3}, se \in BOOLEAN, re \in BOOLEAN}

\* initConfig
initConfig(c) ==
    IF c.Org # <<>> /\ c.Repo = <<>>
    THEN [ok |-> FALSE, Client |-> NoClient, err |-> Errorf("Repo required if Org is set")]
    ELSE LET r == NewClient(c.Server)
         IN  IF ~r.ok
             THEN [ok |-> FALSE, Client |-> NoClient,
                   err |-> Wrap(r.err, "Could not create ChartMuseum client")]
             ELSE [ok |-> TRUE, Client |-> r.client, err |-> Nil]

\* chartutil.IsChartDir: false comes with an error
IsChartDir(path) ==
    IF path = "valid" THEN [valid |-> TRUE, err |-> Nil]
    ELSE [valid |-> FALSE, err |-> Errorf("not a chart directory")]

\* variant: no cleanup is deferred
DeferredRemoveAllForgotten(t) == t

\* defer os.RemoveAll(tmp), run when packageAndUpload returns
DeferredRemoveAll(t) == IF t = "exists" THEN "removed" ELSE t

\* how far packageAndUpload gets before it calls UploadChart
PkgOutcomes == {"tempdir_fail", "load_fail", "save_fail", "open_fail", "opened"}

InitCli ==
    /\ cmd \in {"push", "delete"}
    /\ cfg \in Configs
    /\ args \in (IF cmd = "push" THEN PushArgs ELSE DeleteArgs)
    /\ cpc = "start"
    /\ tmpDir = "none" /\ pkgExit = "none" /\ helpShown = FALSE /\ cmdErr = Nil
    /\ LibIdle /\ UrlIdle

\* pushCommand up to the call of UploadChart inside packageAndUpload
pushCommand ==
    /\ cpc = "start" /\ cmd = "push"
    /\ LET config == initConfig(cfg)
           dir    == IsChartDir(args.chartPath)
       IN  IF ~config.ok
           THEN /\ helpShown' = TRUE
                /\ cmdErr' = config.err
                /\ cpc' = "done"
                /\ UNCHANGED <<tmpDir, pkgExit, libVars>>
           ELSE IF ~dir.valid
           THEN /\ cmdErr' = Wrap(dir.err, "Error validating chart path")
                /\ cpc' = "done"
                /\ UNCHANGED <<helpShown, tmpDir, pkgExit, libVars>>
           ELSE \E x \in PkgOutcomes :
                  /\ pkgExit' = x
                  /\ UNCHANGED helpShown
                  /\ IF x = "opened"
                     THEN /\ tmpDir' = "exists"
                          /\ \E f \in PackageFiles, n \in ChartNames, v \in ChartVersions :
                               /\ file' = f
                               /\ ci' = [Name |-> n, Version |-> v,
                                         Org |-> cfg.Org, Repo |-> cfg.Repo]
                          /\ client' = config.Client
                          /\ op' = "upload"
                          /\ pc' = "UploadChart"
                          /\ cpc' = "wait"
                          /\ UNCHANGED <<cmdErr, ctxState, req, netOut, doRet, ret, effects>>
                     ELSE /\ tmpDir' = (IF x = "tempdir_fail" THEN tmpDir
                                        ELSE DeferredRemoveAll("exists"))
                          /\ cmdErr' = Nil
                          /\ cpc' = "done"
                          /\ UNCHANGED libVars
    /\ UNCHANGED <<cmd, cfg, args, urlVars>>

\* UploadChart has returned: packageAndUpload returns (the deferred RemoveAll
\* runs), pushCommand prints the outcome and returns nil
pushReturn ==
    /\ cpc = "wait" /\ cmd = "push" /\ pc = "returned"
    /\ tmpDir' = DeferredRemoveAll(tmpDir)
    /\ pkgExit' = "uploaded"
    /\ cmdErr' = Nil
    /\ cpc' = "done"
    /\ UNCHANGED <<cmd, cfg, args, helpShown, libVars, urlVars>>

\* deleteCommand up to the call of DeleteChart
deleteCommand ==
    /\ cpc = "start" /\ cmd = "delete"
    /\ LET config == initConfig(cfg)
       IN  IF ~config.ok
           THEN /\ helpShown' = TRUE
                /\ cmdErr' = config.err
                /\ cpc' = "done"
                /\ UNCHANGED libVars
           ELSE /\ ci' = [Name |-> args.name, Version |-> args.version,
                          Org |-> cfg.Org, Repo |-> cfg.Repo]
                /\ client' = config.Client
                /\ op' = "delete"
                /\ pc' = "DeleteChart"
                /\ cpc' = "wait"
                /\ UNCHANGED <<helpShown, cmdErr, file, ctxState, req, netOut, doRet,
                               ret, effects>>
    /\ UNCHANGED <<cmd, cfg, args, tmpDir, pkgExit, urlVars>>

\* DeleteChart has returned: deleteCommand prints the outcome and returns nil
deleteReturn ==
    /\ cpc = "wait" /\ cmd = "delete" /\ pc = "returned"
    /\ cmdErr' = Nil
    /\ cpc' = "done"
    /\ UNCHANGED <<cmd, cfg, args, tmpDir, pkgExit, helpShown, libVars, urlVars>>

NextCli ==
    \/ pushCommand \/ pushReturn \/ deleteCommand \/ deleteReturn
    \/ UploadChart \/ DeleteChart \/ Transport \/ DoReturn

SpecCli == InitCli /\ [][NextCli]_vars

----------------------------------------------------------------------------
(* NewClient on a base URL and on the same base URL with "/" appended, and *)
(* the URL of the request each client builds for one relative path.        *)

PathStrs ==
    {p \in SeqsUpTo({"a", "/", "E", "X"}, MaxPathLen) : p = <<>> \/ p[1] = "/"}

BaseURLs ==
    {<<>>} \cup {<<"S">> \o p \o q : p \in PathStrs, q \in {<<>>, <<"?", "a">>}}

\* relative URLs as the services give them: not empty, no leading slash
RelPaths ==
    {p \in SeqsUpTo({"a", "/", "E"}, MaxRelLen) : p # <<>> /\ p[1] # "/"}
    \cup {<<"api", "/", "charts">>}

InitURL ==
    /\ upc = "input"
    /\ ubase \in BaseURLs
    /\ urel \in RelPaths
    /\ cliA = Nil /\ cliB = Nil /\ urlA = Nil /\ urlB = Nil
    /\ LibIdle /\ CliIdle

BuildClients ==
    /\ upc = "input"
    /\ cliA' = NewClient(ubase)
    /\ cliB' = NewClient(ubase \o <<"/">>)
    /\ upc' = "clients"
    /\ UNCHANGED <<ubase, urel, urlA, urlB, libVars, cliVars>>

BuildRequests ==
    /\ upc = "clients" /\ cliA.ok /\ cliB.ok
    /\ urlA' = NewRequest(cliA.client, "DELETE", urel, Nil)
    /\ urlB' = NewRequest(cliB.client, "DELETE", urel, Nil)
    /\ upc' = "requests"
    /\ UNCHANGED <<ubase, urel, cliA, cliB, libVars, cliVars>>

BuildUploadRequests ==
    /\ upc = "clients" /\ cliA.ok /\ cliB.ok
    /\ urlA' = NewUploadRequest(cliA.client, urel, NoFile, 0, <<"application/x-gzip">>)
    /\ urlB' = NewUploadRequest(cliB.client, urel, NoFile, 0, <<"application/x-gzip">>)
    /\ upc' = "requests"
    /\ UNCHANGED <<ubase, urel, cliA, cliB, libVars, cliVars>>

NextURL == BuildClients \/ BuildRequests \/ BuildUploadRequests

SpecURL == InitURL /\ [][NextURL]_vars

----------------------------------------------------------------------------
(* Properties                                                              *)

Entered == pc \notin {"idle", "UploadChart", "DeleteChart"}

OrgWithoutRepo == ci.Org # <<>> /\ ci.Repo = <<>>

\* C1: a call of UploadChart or DeleteChart whose ChartInfo has Org set and
\* Repo empty returns a nil response and the validation error, whatever Name
\* and Version are, and has done nothing else: no path handed to a helper, no
\* Stat, no sniff, no request built, no exchange.
C1_OrgWithoutRepoFailsBeforeAnyRequest ==
    (Entered /\ OrgWithoutRepo) =>
        /\ pc = "returned"
        /\ ret.resp = Nil
        /\ ret.err = [msg |-> <<"Repo required if Org is provided">>]
        /\ effects = NoEffects
        /\ req = Nil
        /\ netOut = Nil

C1_Witness ==
    /\ pc = "returned" /\ op = "upload" /\ OrgWithoutRepo
    /\ ci.Name = <<"b">> /\ ci.Version = <<"a">> /\ file.kind = "regular"

\* C2: when the transport delivered a response, Do returns the envelope
\* decoded from its body (untouched when the body is empty, unreadable or
\* malformed) with the status, and its error is nil exactly for 200..299.
C2_DoClassifiesByStatus ==
    (pc = "returned" /\ netOut # Nil /\ netOut.kind = "resp") =>
        /\ doRet.resp # Nil
        /\ doRet.resp.StatusCode = netOut.status
        /\ doRet.resp.env.Error = (IF netOut.body = "error" THEN "disk full" ELSE "")
        /\ doRet.resp.env.Saved = (netOut.body = "saved")
        /\ doRet.resp.env.Deleted = (netOut.body = "deleted")
        /\ (doRet.err = Nil) = (netOut.status >= 200 /\ netOut.status <= 299)

C2_Witness ==
    /\ pc = "returned" /\ netOut # Nil /\ netOut.kind = "resp"
    /\ netOut.status = 500 /\ netOut.body = "malformed"
    /\ doRet.resp # Nil /\ doRet.err = [msg |-> <<"">>]

\* the three prefixes of the claim, and the path each operation is to use
ScopePrefix(c) ==
    IF c.Org # <<>> THEN <<"api", "/">> \o c.Org \o <<"/">> \o c.Repo \o <<"/", "charts">>
    ELSE IF c.Repo # <<>> THEN <<"api", "/">> \o c.Repo \o <<"/", "charts">>
    ELSE <<"api", "/", "charts">>

ScopePath(o, c) ==
    IF o = "upload" THEN ScopePrefix(c)
    ELSE ScopePrefix(c) \o <<"/">> \o c.Name \o <<"/">> \o c.Version

ScopeMethod(o) == IF o = "upload" THEN "POST" ELSE "DELETE"

\* C3 as stated: for every combination of org, repo, name and version the call
\* chooses the path of its scope (and a request it builds has the method of
\* the operation).
C3_EveryCombinationChoosesItsPath ==
    Entered =>
        /\ effects.u = ScopePath(op, ci)
        /\ (req # Nil => req.Method = ScopeMethod(op))

\* C3 amended: for every combination except Org set with Repo empty, the call
\* chooses the path of its scope: api/{org}/{repo}/charts, api/{repo}/charts or
\* api/charts, followed by /{name}/{version} for delete only; a request it
\* builds is a POST for upload and a DELETE for delete.
C3_PathIsChosenByScope ==
    (Entered /\ ~OrgWithoutRepo) =>
        /\ effects.u = ScopePath(op, ci)
        /\ (req # Nil => req.Method = ScopeMethod(op))

C3_Witness ==
    /\ pc = "transport" /\ op = "upload"
    /\ ci.Org = <<"a">> /\ ci.Repo = <<"a">> /\ ci.Name = <<"b">>
    /\ effects.u = <<"api", "/", "a", "/", "a", "/", "charts">>
    /\ req.Method = "POST"

\* C4: once detectContentType has returned, the file is at offset 0, and the
\* body of the upload request is as long as its Content-Length.
C4_SniffLeavesOffsetZero ==
    (op = "upload" /\ effects.sniff) =>
        /\ file.pos = 0
        /\ (req # Nil => req.bodyOffset = 0 /\ req.bodyLen = req.ContentLength)

\* C5: when the push command is over, the package file packageAndUpload
\* opened is closed.
C5_PackageFileClosed ==
    (cpc = "done" /\ cmd = "push") => ~file.open

\* C6: when the push command is over, the temporary directory
\* packageAndUpload created is gone, however packageAndUpload ended.
C6_TempDirRemoved ==
    (cpc = "done" /\ cmd = "push") => tmpDir # "exists"

C6_Witness ==
    /\ cpc = "done" /\ cmd = "push" /\ pkgExit = "uploaded"
    /\ tmpDir = "removed"
    /\ netOut # Nil /\ netOut.kind = "resp" /\ netOut.status = 500
    /\ ret.err # Nil

\* C7: every request built carries Accept: application/vnd.chartmuseum.v0+json
\* and User-Agent: go-chartmuseum.
C7_EveryRequestHasAcceptAndUserAgent ==
    req # Nil =>
        /\ req.Accept = <<"application/vnd.chartmuseum.v0+json">>
        /\ req.UserAgent = <<"go-chartmuseum">>

\* C8: the step of Do that handles a transport failure returns a nil response
\* and, if the context is done at that moment, the context's error, otherwise
\* the transport's error unchanged.
C8_ContextErrorPreferred ==
    [][(pc = "handle" /\ netOut.kind = "fail" /\ pc' = "returned") =>
          /\ doRet'.resp = Nil
          /\ (ctxState = "canceled" => doRet'.err = [msg |-> <<"context canceled">>])
          /\ (ctxState = "deadline" =>
                doRet'.err = [msg |-> <<"context deadline exceeded">>])
          /\ (ctxState = "live" => doRet'.err = netOut.err)]_vars

C8_Witness ==
    /\ pc = "returned" /\ netOut # Nil /\ netOut.kind = "fail"
    /\ effects.exchanged
    /\ doRet.resp = Nil
    /\ doRet.err = [msg |-> <<"context deadline exceeded">>]

\* the configuration and argument errors of the claim, read off the command line
ConfigError ==
    \/ cfg.Org # <<>> /\ cfg.Repo = <<>>
    \/ cfg.Server = <<>>
    \/ "X" \in Range(cfg.Server)

ArgumentError ==
    IF cmd = "push" THEN args.chartPath # "valid"
    ELSE args.name = <<>> \/ args.version = <<>>

\* C9: a subcommand that ends on a configuration or argument error has shown
\* its usage help, returns a non-nil error and attempted no HTTP request; any
\* other run returns nil.
C9_UsageErrorsShowHelpAndFail ==
    cpc = "done" =>
        IF ConfigError \/ ArgumentError
        THEN helpShown /\ cmdErr # Nil /\ ~effects.exchanged
        ELSE cmdErr = Nil

\* C10: NewClient fails for the empty base URL; for a parsable base URL whose
\* path does not end in "/", the client's BaseURL path ends in "/", request
\* construction passes the trailing-slash check, and the request URL for a
\* relative path is the one the client of the same base URL with "/" appended
\* builds.
C10_TrailingSlashNormalisationIsStable ==
    /\ (upc # "input" /\ ubase = <<>>) => ~cliA.ok
    /\ (upc = "requests" /\ ~HasSuffixSlash(ParseURL(ubase).url.Path)) =>
          /\ HasSuffixSlash(cliA.client.BaseURL.Path)
          /\ urlA.ok /\ urlB.ok
          /\ urlA.req.URL = urlB.req.URL

----------------------------------------------------------------------------
====
